---------------------------- MODULE Spec2Model ----------------------------
(***************************************************************************)
(* A model of setup.py, the packaging descriptor of dev-container.         *)
(*                                                                         *)
(* The descriptor is a straight-line script: it opens README.md in text    *)
(* mode, reads it whole, closes it, and calls setuptools.setup() with      *)
(* literal keyword arguments.  The state is the environment the script     *)
(* runs in (the files beside it, the locale's encoding, the interpreter,   *)
(* the requested command), the script's own position and bindings, and     *)
(* what the packaging toolchain has done with the arguments it was given.  *)
(*                                                                         *)
(* Text is a sequence of Unicode code points, a file's contents a sequence *)
(* of bytes, a metadata string a sequence of one-character strings.        *)
(***************************************************************************)
EXTENDS Integers, Sequences, FiniteSets, TLC

(***************************************************************************)
(* Bounds of the model.                                                    *)
(***************************************************************************)
\* Longest README.md, in bytes.
MaxLen == 2
\* Interpreters run from <<PyMajor, 0, 0>> to <<PyMajor, MaxMinor, MaxMicro>>.
MaxMinor == 7
MaxMicro == 1

\* The shebang line asks for a python3 interpreter.
PyMajor == 3

\* The bytes README.md is made of: LF, CR, "A", and 0xC3 0xA9, which is the
\* UTF-8 encoding of U+00E9 and two characters in Latin-1.
Byte == {10, 13, 65, 195, 169}

\* The encodings locale.getpreferredencoding(False) may answer.
Encodings == {"utf-8", "latin-1", "ascii"}

\* What may be asked of the script on its command line.
Commands == {"--version", "build", "install"}

None == << >>
Some(x) == << x >>

(***************************************************************************)
(* open(..., "r"): text mode.  No encoding is given, so the bytes are      *)
(* decoded with the locale's preferred encoding, errors="strict"; no       *)
(* newline is given, so universal newlines are translated on reading.      *)
(***************************************************************************)
IsCont(b) == b >= 128 /\ b <= 191

\* One UTF-8 sequence starting at bs[i]: its code point and length.
Utf8Step(bs, i) ==
    LET b0 == bs[i]
        has(k) == i + k <= Len(bs) /\ \A j \in 1..k : IsCont(bs[i + j])
        bad == [ok |-> FALSE, cp |-> 0, n |-> 1]
    IN  IF b0 < 128 THEN [ok |-> TRUE, cp |-> b0, n |-> 1]
        ELSE IF b0 >= 194 /\ b0 <= 223 THEN
            IF has(1)
            THEN [ok |-> TRUE, cp |-> (b0 - 192) * 64 + (bs[i + 1] - 128), n |-> 2]
            ELSE bad
        ELSE IF b0 >= 224 /\ b0 <= 239 THEN
            IF has(2) /\ (b0 = 224 => bs[i + 1] >= 160) /\ (b0 = 237 => bs[i + 1] <= 159)
            THEN [ok |-> TRUE,
                  cp |-> (b0 - 224) * 4096 + (bs[i + 1] - 128) * 64 + (bs[i + 2] - 128),
                  n |-> 3]
            ELSE bad
        ELSE IF b0 >= 240 /\ b0 <= 244 THEN
            IF has(3) /\ (b0 = 240 => bs[i + 1] >= 144) /\ (b0 = 244 => bs[i + 1] <= 143)
            THEN [ok |-> TRUE,
                  cp |-> (b0 - 240) * 262144 + (bs[i + 1] - 128) * 4096
                         + (bs[i + 2] - 128) * 64 + (bs[i + 3] - 128),
                  n |-> 4]
            ELSE bad
        ELSE bad

RECURSIVE Utf8From(_, _)
Utf8From(bs, i) ==
    IF i > Len(bs) THEN [ok |-> TRUE, text |-> << >>]
    ELSE LET s == Utf8Step(bs, i)
         IN  IF ~s.ok THEN [ok |-> FALSE, text |-> << >>]
             ELSE LET rest == Utf8From(bs, i + s.n)
                  IN  [ok |-> rest.ok,
                       text |-> IF rest.ok THEN << s.cp >> \o rest.text ELSE << >>]

DecodeUtf8(bs) == Utf8From(bs, 1)

\* Latin-1 maps every byte to the code point of the same number.
DecodeLatin1(bs) == [ok |-> TRUE, text |-> bs]

\* ASCII refuses every byte from 0x80 on.
DecodeAscii(bs) ==
    IF \A i \in 1..Len(bs) : bs[i] < 128
    THEN [ok |-> TRUE, text |-> bs]
    ELSE [ok |-> FALSE, text |-> << >>]

Decode(enc, bs) ==
    CASE enc = "utf-8" -> DecodeUtf8(bs)
      [] enc = "latin-1" -> DecodeLatin1(bs)
      [] enc = "ascii" -> DecodeAscii(bs)

\* Universal newlines: "\r\n" and a lone "\r" are both read as "\n".
RECURSIVE NewlinesFrom(_, _)
NewlinesFrom(t, i) ==
    IF i > Len(t) THEN << >>
    ELSE IF t[i] = 13
         THEN IF i < Len(t) /\ t[i + 1] = 10
              THEN << 10 >> \o NewlinesFrom(t, i + 2)
              ELSE << 10 >> \o NewlinesFrom(t, i + 1)
         ELSE << t[i] >> \o NewlinesFrom(t, i + 1)

TranslateNewlines(t) == NewlinesFrom(t, 1)

\* The encoding open() uses when none is passed.
OpenEncoding(localeEncoding) == localeEncoding

RECURSIVE FirstLineFrom(_, _)
FirstLineFrom(t, i) ==
    IF i > Len(t) THEN << >>
    ELSE IF t[i] = 10 THEN << 10 >>
    ELSE << t[i] >> \o FirstLineFrom(t, i + 1)

\* fh.readline() in place of fh.read(): the first line only.
TextReadLine(enc, bs) ==
    LET d == Decode(OpenEncoding(enc), bs)
    IN  [ok |-> d.ok,
         text |-> IF d.ok THEN FirstLineFrom(TranslateNewlines(d.text), 1) ELSE << >>]

\* fh.read() on the text-mode handle.
TextRead(enc, bs) ==
    LET d == Decode(OpenEncoding(enc), bs)
    IN  [ok |-> d.ok, text |-> IF d.ok THEN TranslateNewlines(d.text) ELSE << >>]


(***************************************************************************)
(* The keyword arguments of setuptools.setup(), as the script writes them. *)
(***************************************************************************)
\* The name written with an underscore.
name_underscore == << "d", "e", "v", "_", "c", "o", "n", "t", "a", "i", "n", "e", "r" >>
name == << "d", "e", "v", "-", "c", "o", "n", "t", "a", "i", "n", "e", "r" >>
version == << "0", ".", "0", ".", "1" >>
author == "Marcel Hollerbach"
author_email == "mail@bu5hm4n.de"
description == "A small bin tool that will spin up a docker for you. The docker will be picked from your CI tools, and can be used instead of the host system"
long_description_content_type == "text/markdown"
url == "https://github.com/marcelhollerbach/dev-container"
classifiers ==
    << "Programming Language :: Python :: 3",
       "License :: OSI Approved :: Apache 2.0",
       "Operating System :: Linux" >>
\* The constraint written with ">" for ">=".
python_requires_exclusive == << ">", "3", ".", "6" >>
python_requires == << ">", "=", "3", ".", "6" >>
license == << "A", "p", "a", "c", "h", "e", " ", "2", ".", "0" >>
\* No script declared, and the wrong file declared as the script.
scripts_none == << >>
scripts_wrong_file == << << "README.md" >> >>
\* A script is a path, a path a sequence of components.
scripts == << << "dev-container" >> >>

(***************************************************************************)
(* The packaging toolchain's reading of the metadata: version numbers,     *)
(* version specifiers, project names and PKG-INFO headers.                 *)
(***************************************************************************)
Digit == << "0", "1", "2", "3", "4", "5", "6", "7", "8", "9" >>
IsDigit(c) == \E i \in 1..10 : Digit[i] = c
DigitVal(c) == (CHOOSE i \in 1..10 : Digit[i] = c) - 1

Letter ==
    { "a", "b", "c", "d", "e", "f", "g", "h", "i", "j", "k", "l", "m",
      "n", "o", "p", "q", "r", "s", "t", "u", "v", "w", "x", "y", "z",
      "A", "B", "C", "D", "E", "F", "G", "H", "I", "J", "K", "L", "M",
      "N", "O", "P", "Q", "R", "S", "T", "U", "V", "W", "X", "Y", "Z" }

RECURSIVE SplitFrom(_, _, _, _)
SplitFrom(cs, sep, i, cur) ==
    IF i > Len(cs) THEN << cur >>
    ELSE IF cs[i] = sep
         THEN << cur >> \o SplitFrom(cs, sep, i + 1, << >>)
         ELSE SplitFrom(cs, sep, i + 1, Append(cur, cs[i]))

SplitOn(cs, sep) == SplitFrom(cs, sep, 1, << >>)

RECURSIVE NatOf(_)
NatOf(ds) ==
    IF ds = << >> THEN 0
    ELSE NatOf(SubSeq(ds, 1, Len(ds) - 1)) * 10 + DigitVal(ds[Len(ds)])

RECURSIVE RenderNat(_)
RenderNat(n) ==
    IF n < 10 THEN << Digit[n + 1] >>
    ELSE RenderNat(n \div 10) \o << Digit[(n % 10) + 1] >>

\* A version of release numbers only: N(.N)*.
ParseVersion(cs) ==
    LET parts == SplitOn(cs, ".")
        ok == \A p \in 1..Len(parts) :
                  /\ parts[p] # << >>
                  /\ \A k \in 1..Len(parts[p]) : IsDigit(parts[p][k])
    IN  [ok |-> ok,
         release |-> IF ok THEN [p \in 1..Len(parts) |-> NatOf(parts[p])] ELSE << >>]

RECURSIVE JoinDots(_)
JoinDots(rel) ==
    IF Len(rel) = 0 THEN << >>
    ELSE IF Len(rel) = 1 THEN RenderNat(rel[1])
    ELSE RenderNat(rel[1]) \o << "." >> \o JoinDots(Tail(rel))

\* The version as the toolchain writes it: each number without leading zeros.
NormalizeVersion(cs) == JoinDots(ParseVersion(cs).release)

\* Releases compare number by number, the shorter one padded with zeros.
RelAt(rel, i) == IF i <= Len(rel) THEN rel[i] ELSE 0

RECURSIVE CompareFrom(_, _, _)
CompareFrom(a, b, i) ==
    IF i > Len(a) /\ i > Len(b) THEN 0
    ELSE IF RelAt(a, i) < RelAt(b, i) THEN -1
    ELSE IF RelAt(a, i) > RelAt(b, i) THEN 1
    ELSE CompareFrom(a, b, i + 1)

CompareRelease(a, b) == CompareFrom(a, b, 1)

SpecifierOps2 == { << ">", "=" >>, << "<", "=" >>, << "=", "=" >>, << "!", "=" >>, << "~", "=" >> }
SpecifierOps1 == { << ">" >>, << "<" >> }

\* One version specifier: a comparison operator, then a version.
ParseSpecifier(cs) ==
    LET n == IF Len(cs) >= 2 /\ SubSeq(cs, 1, 2) \in SpecifierOps2 THEN 2
             ELSE IF Len(cs) >= 1 /\ SubSeq(cs, 1, 1) \in SpecifierOps1 THEN 1
             ELSE 0
        v == ParseVersion(SubSeq(cs, n + 1, Len(cs)))
        ok == n > 0 /\ v.ok /\ (SubSeq(cs, 1, n) = << "~", "=" >> => Len(v.release) >= 2)
    IN  [ok |-> ok,
         op |-> IF ok THEN SubSeq(cs, 1, n) ELSE << >>,
         release |-> IF ok THEN v.release ELSE << >>]

\* Whether the release `rel` satisfies the parsed specifier `sp`.
Satisfies(rel, sp) ==
    LET c == CompareRelease(rel, sp.release)
    IN  CASE sp.op = << ">", "=" >> -> c >= 0
          [] sp.op = << "<", "=" >> -> c <= 0
          [] sp.op = << "=", "=" >> -> c = 0
          [] sp.op = << "!", "=" >> -> c # 0
          [] sp.op = << ">" >> -> c > 0
          [] sp.op = << "<" >> -> c < 0
          [] sp.op = << "~", "=" >> ->
                /\ c >= 0
                /\ \A i \in 1..(Len(sp.release) - 1) : RelAt(rel, i) = sp.release[i]

\* The project name as written to the metadata: every run of characters
\* other than letters, digits and "." becomes one "-".
RECURSIVE SafeFrom(_, _, _)
SafeFrom(cs, i, inRun) ==
    IF i > Len(cs) THEN << >>
    ELSE IF cs[i] \in Letter \/ IsDigit(cs[i]) \/ cs[i] = "."
         THEN << cs[i] >> \o SafeFrom(cs, i + 1, FALSE)
         ELSE IF inRun THEN SafeFrom(cs, i + 1, TRUE)
              ELSE << "-" >> \o SafeFrom(cs, i + 1, TRUE)

SafeName(cs) == SafeFrom(cs, 1, FALSE)

\* A PKG-INFO header line, and its value as a metadata reader returns it:
\* what follows the first ":", without leading blanks.
HeaderLine(key, value) == << key, ":", " " >> \o value

RECURSIVE LStrip(_)
LStrip(cs) ==
    IF cs # << >> /\ cs[1] = " " THEN LStrip(Tail(cs)) ELSE cs

HeaderValue(line) == LStrip(SubSeq(line, 3, Len(line)))

\* The headers the toolchain writes for the arguments `args` of setup().
WriteMetadata(args) ==
    [Name |-> HeaderLine("Name", SafeName(args.name)),
     Version |-> HeaderLine("Version", NormalizeVersion(args.version)),
     License |-> HeaderLine("License", args.license),
     RequiresPython |-> HeaderLine("Requires-Python", args.python_requires)]

\* The metadata as read back from the headers `info`.
ReadMetadata(info) ==
    [name |-> HeaderValue(info.Name),
     version |-> HeaderValue(info.Version),
     license |-> HeaderValue(info.License),
     python_requires |-> HeaderValue(info.RequiresPython)]

\* Whether the toolchain accepts the arguments: a version and a version
\* specifier it can parse.
MetadataValid(args) ==
    /\ ParseVersion(args.version).ok
    /\ ParseSpecifier(args.python_requires).ok

\* The command a script is installed as: the last component of its path.
Basename(path) == path[Len(path)]


(***************************************************************************)
(* The state.                                                              *)
(***************************************************************************)
VARIABLES
    readme,           \* README.md: "absent", "unreadable" or "present"
    readmeBytes,      \* its contents
    encoding,         \* the locale's preferred encoding
    script,           \* the file dev-container: "absent" or "executable"
    command,          \* the command asked of the script
    pyver,            \* the interpreter's version, sys.version_info[:3]
    pc,               \* where the run is
    fh,               \* the file handle: "none", "open" or "closed"
    long_description, \* the script's binding of that name, None before
    nOpen,            \* how often README.md was opened
    nSetup,           \* how often setuptools.setup() was called
    error,            \* the exception that ended the run, "none" without
    errSite,          \* who raised it: "descriptor", "toolchain" or "none"
    setupArgs,        \* the keyword arguments setup() received
    scriptChecked,    \* whether the toolchain looked for a script file
    artifact,         \* what the build produced
    installed,        \* the installed package's metadata headers
    pathCommands      \* the commands the installation put on the PATH

env == << readme, readmeBytes, encoding, script, command, pyver >>
descriptor == << pc, fh, long_description, nOpen, nSetup, error, errSite >>
toolchain == << setupArgs, scriptChecked, artifact, installed, pathCommands >>
vars == << env, descriptor, toolchain >>

Contents == UNION { [1..n -> Byte] : n \in 0..MaxLen }
Versions == { << PyMajor, minor, micro >> : minor \in 0..MaxMinor, micro \in 0..MaxMicro }

Init ==
    /\ readme \in {"absent", "unreadable", "present"}
    /\ readmeBytes \in IF readme = "present" THEN Contents ELSE { << >> }
    /\ encoding \in Encodings
    /\ script \in {"absent", "executable"}
    /\ command \in Commands
    /\ pyver \in Versions
    /\ pc = "start"
    /\ fh = "none"
    /\ long_description = None
    /\ nOpen = 0
    /\ nSetup = 0
    /\ error = "none"
    /\ errSite = "none"
    /\ setupArgs = None
    /\ scriptChecked = FALSE
    /\ artifact = None
    /\ installed = None
    /\ pathCommands = {}

\* The files beside setup.py, and whether a path names one of them.
Files ==
    (IF readme = "absent" THEN {} ELSE { << "README.md" >> })
        \cup (IF script = "absent" THEN {} ELSE { << "dev-container" >> })

FileExists(path) == path \in Files

(***************************************************************************)
(* The descriptor's own statements.                                        *)
(***************************************************************************)
\* open() wrapped in try/except, going on with an empty description.
OpenReadme_Fallback ==
    /\ pc = "start"
    /\ nOpen' = nOpen + 1
    /\ IF readme = "present"
       THEN /\ fh' = "open"
            /\ pc' = "opened"
            /\ UNCHANGED long_description
       ELSE /\ pc' = "closed"
            /\ long_description' = Some(<< >>)
            /\ UNCHANGED fh
    /\ UNCHANGED << env, nSetup, error, errSite, toolchain >>

\* open() in a loop that tries three times before it gives up.
OpenReadme_Retry ==
    /\ pc = "start"
    /\ nOpen' = nOpen + 1
    /\ IF readme = "present"
       THEN /\ fh' = "open"
            /\ pc' = "opened"
            /\ UNCHANGED << error, errSite >>
       ELSE IF nOpen < 2
       THEN UNCHANGED << pc, fh, error, errSite >>
       ELSE /\ pc' = "failed"
            /\ error' = (IF readme = "absent" THEN "ENOENT" ELSE "EACCES")
            /\ errSite' = "descriptor"
            /\ UNCHANGED fh
    /\ UNCHANGED << env, long_description, nSetup, toolchain >>

\* open("README.md", "r"): raises when the file is missing or may not be read.
\* Nothing catches the exception: the run ends there.
OpenReadme ==
    /\ pc = "start"
    /\ nOpen' = nOpen + 1
    /\ IF readme = "present"
       THEN /\ fh' = "open"
            /\ pc' = "opened"
            /\ UNCHANGED << error, errSite >>
       ELSE /\ pc' = "failed"
            /\ error' = (IF readme = "absent" THEN "ENOENT" ELSE "EACCES")
            /\ errSite' = "descriptor"
            /\ UNCHANGED fh
    /\ UNCHANGED << env, long_description, nSetup, toolchain >>

\* long_description = fh.read(); a decoding error leaves the with block,
\* which closes the file on its way out.
ReadReadme ==
    /\ pc = "opened"
    /\ LET r == TextRead(encoding, readmeBytes)
       IN  IF r.ok
           THEN /\ long_description' = Some(r.text)
                /\ pc' = "read"
                /\ UNCHANGED << fh, error, errSite >>
           ELSE /\ fh' = "closed"
                /\ pc' = "failed"
                /\ error' = "UnicodeDecodeError"
                /\ errSite' = "descriptor"
                /\ UNCHANGED long_description
    /\ UNCHANGED << env, nOpen, nSetup, toolchain >>

\* setup() called inside the with block: the file is still open by then.
CloseReadme_Late ==
    /\ pc = "read"
    /\ pc' = "closed"
    /\ UNCHANGED << env, fh, long_description, nOpen, nSetup, error, errSite, toolchain >>

\* The end of the with block closes the file.
CloseReadme ==
    /\ pc = "read"
    /\ fh' = "closed"
    /\ pc' = "closed"
    /\ UNCHANGED << env, long_description, nOpen, nSetup, error, errSite, toolchain >>

\* find_packages(): the directories beside setup.py that are packages;
\* the repository has none.
find_packages == << >>

\* The keyword arguments of the call, long_description bound to `ld`.
SetupKeywords(ld) ==
    [name |-> name,
     version |-> version,
     author |-> author,
     author_email |-> author_email,
     description |-> description,
     long_description |-> ld,
     long_description_content_type |-> long_description_content_type,
     url |-> url,
     packages |-> find_packages,
     classifiers |-> classifiers,
     python_requires |-> python_requires,
     license |-> license,
     scripts |-> scripts]

\* The descriptor looking for the script itself before it calls setup().
CallSetup_ChecksScript ==
    /\ pc = "closed"
    /\ IF \A i \in 1..Len(scripts) : FileExists(scripts[i])
       THEN /\ setupArgs' = Some(SetupKeywords(long_description[1]))
            /\ nSetup' = nSetup + 1
            /\ pc' = "setup"
            /\ UNCHANGED << error, errSite >>
       ELSE /\ pc' = "failed"
            /\ error' = "script missing"
            /\ errSite' = "descriptor"
            /\ UNCHANGED << setupArgs, nSetup >>
    /\ UNCHANGED << env, fh, long_description, nOpen,
                    scriptChecked, artifact, installed, pathCommands >>

\* setuptools.setup(...): hands the arguments to the toolchain.
CallSetup ==
    /\ pc = "closed"
    /\ setupArgs' = Some(SetupKeywords(long_description[1]))
    /\ nSetup' = nSetup + 1
    /\ pc' = "setup"
    /\ UNCHANGED << env, fh, long_description, nOpen, error, errSite,
                    scriptChecked, artifact, installed, pathCommands >>

(***************************************************************************)
(* The packaging toolchain, inside setup().                                *)
(***************************************************************************)
\* The run ends with the toolchain's error `e`.
ToolchainFails(e) ==
    /\ pc' = "failed"
    /\ error' = e
    /\ errSite' = "toolchain"

\* The arguments are checked as setup() receives them.
ValidateMetadata ==
    /\ pc = "setup"
    /\ IF MetadataValid(setupArgs[1])
       THEN pc' = "validated" /\ UNCHANGED << error, errSite >>
       ELSE ToolchainFails("malformed metadata")
    /\ UNCHANGED << env, fh, long_description, nOpen, nSetup, toolchain >>

\* --version prints the version and builds nothing.
ShowVersion ==
    /\ pc = "validated"
    /\ command = "--version"
    /\ pc' = "done"
    /\ UNCHANGED << env, fh, long_description, nOpen, nSetup, error, errSite, toolchain >>

\* The installer compares the interpreter with python_requires.
CheckPython ==
    /\ pc = "validated"
    /\ command = "install"
    /\ IF Satisfies(pyver, ParseSpecifier(setupArgs[1].python_requires))
       THEN pc' = "accepted" /\ UNCHANGED << error, errSite >>
       ELSE ToolchainFails("unsupported python")
    /\ UNCHANGED << env, fh, long_description, nOpen, nSetup, toolchain >>

\* The build copies every script named and writes the metadata; a script
\* that is not there fails it.
BuildPackage ==
    /\ \/ pc = "validated" /\ command = "build"
       \/ pc = "accepted"
    /\ LET args == setupArgs[1]
       IN  /\ scriptChecked' = (scriptChecked \/ Len(args.scripts) > 0)
           /\ IF \A i \in 1..Len(args.scripts) : FileExists(args.scripts[i])
              THEN /\ artifact' = Some([info |-> WriteMetadata(args),
                                        long_description |-> args.long_description,
                                        scripts |-> args.scripts])
                   /\ pc' = "built"
                   /\ UNCHANGED << error, errSite >>
              ELSE /\ ToolchainFails("script missing")
                   /\ UNCHANGED artifact
    /\ UNCHANGED << env, fh, long_description, nOpen, nSetup,
                    setupArgs, installed, pathCommands >>

\* A build that was asked for alone is done.
FinishBuild ==
    /\ pc = "built"
    /\ command = "build"
    /\ pc' = "done"
    /\ UNCHANGED << env, fh, long_description, nOpen, nSetup, error, errSite, toolchain >>

\* The installation records the metadata and puts each script on the PATH
\* under its file name.
InstallPackage ==
    /\ pc = "built"
    /\ command = "install"
    /\ installed' = Some(artifact[1].info)
    /\ pathCommands' = { Basename(artifact[1].scripts[i]) : i \in 1..Len(artifact[1].scripts) }
    /\ pc' = "done"
    /\ UNCHANGED << env, fh, long_description, nOpen, nSetup, error, errSite,
                    setupArgs, scriptChecked, artifact >>

Next ==
    \/ OpenReadme
    \/ ReadReadme
    \/ CloseReadme
    \/ CallSetup
    \/ ValidateMetadata
    \/ ShowVersion
    \/ CheckPython
    \/ BuildPackage
    \/ FinishBuild
    \/ InstallPackage

Spec == Init /\ [][Next]_vars


(***************************************************************************)
(* The properties.                                                         *)
(***************************************************************************)
\* The run has left the statement that reads README.md.
PastRead == pc \notin {"start", "opened"}

DescriptorErrors == {"ENOENT", "EACCES", "UnicodeDecodeError"}
ToolchainErrors == {"malformed metadata", "unsupported python", "script missing"}

DevContainerName == << "d", "e", "v", "-", "c", "o", "n", "t", "a", "i", "n", "e", "r" >>
Version001 == << "0", ".", "0", ".", "1" >>
Apache20 == << "A", "p", "a", "c", "h", "e", " ", "2", ".", "0" >>

\* The interpreter `v` is older than 3.6.
Below36(v) == v[1] < 3 \/ (v[1] = 3 /\ v[2] < 6)

C2_AbsentReadmeFails ==
    readme = "absent" =>
        /\ pc \in {"start", "failed"}
        /\ pc = "failed" => (error = "ENOENT" /\ errSite = "descriptor")
        /\ setupArgs = None
        /\ artifact = None
        /\ installed = None

\* C2's case: the run has failed on the absent README.md.
C2_Witness == readme = "absent" /\ pc = "failed" /\ error = "ENOENT"

\* C3: the descriptor declares exactly one script, dev-container, and no
\* other; with that file present and executable, a run that completes the
\* installation leaves exactly the command dev-container on the PATH.
C3_ScriptOnPath ==
    /\ setupArgs # None => setupArgs[1].scripts = << << "dev-container" >> >>
    /\ (script = "executable" /\ command = "install" /\ pc = "done") =>
           pathCommands = {"dev-container"}

\* C3's case: an installation has completed with the script in place.
C3_Witness ==
    /\ script = "executable"
    /\ command = "install"
    /\ pc = "done"
    /\ "dev-container" \in pathCommands

\* C4: with the script file missing nothing is ever built or installed and
\* no command reaches the PATH: a build or an installation that gets as far
\* as the script fails there.
C4_NoInstallWithoutScript ==
    script = "absent" =>
        /\ artifact = None
        /\ installed = None
        /\ pathCommands = {}
        /\ pc = "done" => command = "--version"
        /\ scriptChecked => (pc = "failed" /\ error = "script missing")

\* C4's case: an installation has failed on the missing script.
C4_Witness ==
    /\ script = "absent"
    /\ command = "install"
    /\ pc = "failed"
    /\ error = "script missing"
    /\ scriptChecked

\* C5: the installer rejects every interpreter older than 3.6 and, for
\* python_requires, no other: 3.6.0 itself and everything later pass.
C5_PythonRequires ==
    /\ error = "unsupported python" => Below36(pyver)
    /\ (command = "install" /\ Below36(pyver)) => pc \notin {"accepted", "built", "done"}
    /\ installed # None => ~Below36(pyver)
    /\ (command = "install" /\ ~Below36(pyver) /\ pc = "failed") =>
           error # "unsupported python"

\* C5's case: an installation on Python 3.5 has been rejected.
C5_Witness ==
    /\ command = "install"
    /\ pyver[1] = 3
    /\ pyver[2] = 5
    /\ pc = "failed"
    /\ error = "unsupported python"

\* C6: the name, version and license read back from the installed package's
\* metadata are the declared ones: "dev-container", "0.0.1", "Apache 2.0".
C6_MetadataRoundTrip ==
    installed # None =>
        LET m == ReadMetadata(installed[1])
            declared == setupArgs[1]
        IN  /\ m.name = declared.name
            /\ m.version = declared.version
            /\ m.license = declared.license
            /\ m.name = DevContainerName
            /\ m.version = Version001
            /\ m.license = Apache20

\* C6's case: the package is installed and its metadata can be read.
C6_Witness ==
    /\ installed # None
    /\ pc = "done"
    /\ ReadMetadata(installed[1]).name = DevContainerName

\* C7, as claimed: every error is raised by the packaging toolchain, none by
\* the descriptor's own code.
C7_AllErrorsFromToolchain == error # "none" => errSite = "toolchain"

\* C7, amended: a missing script, malformed metadata and an unsupported
\* interpreter are raised by the toolchain, inside setup(); a missing,
\* unreadable or undecodable readme is raised by the descriptor's own open()
\* and read(), before setup() is called.  The descriptor validates nothing
\* and recovers from nothing: every error ends the run.
C7_ErrorSites ==
    /\ error \in DescriptorErrors <=> errSite = "descriptor"
    /\ error \in ToolchainErrors <=> errSite = "toolchain"
    /\ error = "none" <=> errSite = "none"
    /\ errSite = "descriptor" => (setupArgs = None /\ nSetup = 0)
    /\ errSite = "toolchain" => (setupArgs # None /\ nSetup = 1)
    /\ error # "none" => pc = "failed"

\* C7's case: the toolchain has raised the missing script during a build.
C7_Witness ==
    /\ command = "build"
    /\ pc = "failed"
    /\ errSite = "toolchain"
    /\ error = "script missing"

\* C8: a failed run has produced no artifact and installed nothing, its
\* failing step was attempted once, and no step follows the failure.
C8_FailedBuildHalts ==
    /\ [](pc = "failed" =>
              /\ error # "none"
              /\ artifact = None
              /\ installed = None
              /\ pathCommands = {}
              /\ nOpen = 1
              /\ errSite = "descriptor" => nSetup = 0
              /\ errSite = "toolchain" => nSetup = 1)
    /\ [][pc # "failed"]_vars

\* C8's case: an installation has failed inside the toolchain.
C8_Witness ==
    /\ pc = "failed"
    /\ errSite = "toolchain"
    /\ error = "unsupported python"
    /\ nSetup = 1

\* C9, as claimed: README.md is read as UTF-8 whatever the environment's
\* encoding is: once read, the description is the UTF-8 decoding of the
\* file's bytes (newlines translated).
C9_ReadAsUtf8 ==
    (readme = "present" /\ DecodeUtf8(readmeBytes).ok /\ PastRead) =>
        long_description = Some(TranslateNewlines(DecodeUtf8(readmeBytes).text))

\* C10: whatever the command, setup() is called only after README.md was
\* opened, read whole and closed; if the readme cannot be read, setup() is
\* never called and neither the script nor the metadata is looked at.
C10_ReadmeBeforeSetup ==
    /\ (nSetup > 0 \/ setupArgs # None) =>
           /\ nOpen = 1
           /\ fh = "closed"
           /\ long_description # None
           /\ setupArgs[1].long_description = long_description[1]
           /\ long_description[1] = TranslateNewlines(Decode(encoding, readmeBytes).text)
    /\ errSite = "descriptor" =>
           /\ nSetup = 0
           /\ setupArgs = None
           /\ ~scriptChecked
           /\ artifact = None
    /\ (readme # "present" /\ pc # "start") => (pc = "failed" /\ nSetup = 0)

\* C10's case: a run asked only for --version has failed on an unreadable
\* README.md, setup() never called.
C10_Witness ==
    /\ command = "--version"
    /\ readme = "unreadable"
    /\ pc = "failed"
    /\ setupArgs = None

=============================================================================
